---- MODULE Spec2Model ----
(***************************************************************************)
(* Model of white_agent/agent.py (class WhiteAgent): the reset / act /     *)
(* observe state machine, the response parser, the action grammar, the     *)
(* cleanup tracker and the reflection store.                               *)
(*                                                                         *)
(* Text.  A Python str is modelled as a sequence of atoms.  An atom is an  *)
(* indivisible fragment of text (a word, one whitespace character, one     *)
(* quote character, or a fixed literal of the program); the text is the    *)
(* concatenation of its atoms.  "" is the empty sequence.                  *)
(* An optional value (None or a value) is <<>> or <<value>>.               *)
(***************************************************************************)
EXTENDS Integers, Sequences, FiniteSets, TLC

VARIABLES
    state,            \* self.state: a dict, modelled as a function from keys
    reflections,      \* self.reflections
    client,           \* self.client is not None
    max_reflections,  \* self.max_reflections
    track_cleanup,    \* self.track_cleanup
    call,             \* the call that ran last: operation, arguments, outcome
    llm_calls,        \* transcripts handed to the model during the last act
    lessons,          \* every reflection handed to _add_reflection so far
    origin,           \* the call that created the current episode state
    calls,            \* number of calls made so far
    limit,            \* number of calls explored on this instance
    executor          \* the server executor's entry for one context id

vars == <<state, reflections, client, max_reflections, track_cleanup,
          call, llm_calls, lessons, origin, calls, limit, executor>>

\* ------------------------------------------------------------------ bounds

\* calls made on one agent instance in one behaviour
MaxCalls == 3

\* largest configured max_reflections explored
MaxCfgReflections == 2

\* calls made on one agent instance where an episode of container actions
\* is followed to its statistics
MaxEpisodeCalls == 5

\* calls made on one agent instance where long trajectories are built
MaxObserved == 6

\* ------------------------------------------------------------ Python values

None == <<>>
Some(x) == <<x>>

\* dict helpers: d.get(k, default), d[k] = v
Get(d, k, default) == IF k \in DOMAIN d THEN d[k] ELSE default
Put(d, k, v) == [x \in (DOMAIN d) \cup {k} |-> IF x = k THEN v ELSE d[x]]
EmptyDict == [x \in {} |-> None]

\* ------------------------------------------------------------------- text

Whitespace == {" ", "\n"}
\* the characters of strip('"\'`'); the atom "BACKTICK" stands for the backtick
QuoteChars == {"\"", "'", "BACKTICK"}

\* str.lower() on one atom (the upper-case atoms of the vocabulary)
LowerAtom(a) ==
    CASE a = "LOOK" -> "look"
      [] a = "Look" -> "look"
      [] a = "Open" -> "open"
      [] a = "OPEN" -> "open"
      [] a = "Close" -> "close"
      [] a = "Fridge" -> "fridge"
      [] a = "Lamp" -> "lamp"
      [] a = "OFF" -> "off"
      [] a = "Action:" -> "action:"
      [] a = "ACTION:" -> "action:"
      [] OTHER -> a

Lower(s) == [i \in 1..Len(s) |-> LowerAtom(s[i])]

RECURSIVE LStripSet(_, _)
LStripSet(s, chars) ==
    IF s # <<>> /\ Head(s) \in chars THEN LStripSet(Tail(s), chars) ELSE s

RECURSIVE RStripSet(_, _)
RStripSet(s, chars) ==
    IF s # <<>> /\ s[Len(s)] \in chars
    THEN RStripSet(SubSeq(s, 1, Len(s) - 1), chars) ELSE s

\* str.strip(chars)
StripSet(s, chars) == RStripSet(LStripSet(s, chars), chars)

\* str.strip()
Strip(s) == StripSet(s, Whitespace)

\* str.startswith(p)
StartsWith(s, p) == Len(s) >= Len(p) /\ SubSeq(s, 1, Len(p)) = p

\* str.split("\n"): always at least one piece
RECURSIVE SplitLines(_)
SplitLines(s) ==
    IF \A i \in 1..Len(s) : s[i] # "\n" THEN <<s>>
    ELSE LET k == CHOOSE i \in 1..Len(s) :
                      s[i] = "\n" /\ \A j \in 1..(i - 1) : s[j] # "\n"
         IN <<SubSeq(s, 1, k - 1)>> \o SplitLines(SubSeq(s, k + 1, Len(s)))

\* sep.join(parts)
RECURSIVE Join(_, _)
Join(sep, parts) ==
    IF parts = <<>> THEN <<>>
    ELSE IF Len(parts) = 1 THEN parts[1]
    ELSE parts[1] \o sep \o Join(sep, Tail(parts))

\* keywords occurring inside one (lower-case) atom: the atom itself, and for
\* the longer words of the vocabulary the keywords they contain
KeywordsIn(a) ==
    CASE a = "coffee" -> {"coffee", "off"}
      [] a = "cleaned" -> {"cleaned", "clean"}
      [] OTHER -> {a}

\* kw in s   (kw a single keyword)
Contains(s, kw) == \E i \in 1..Len(s) : kw \in KeywordsIn(s[i])

\* p in s   (p any text: a contiguous run of atoms)
ContainsText(s, p) ==
    \E i \in 0..(Len(s) - Len(p)) : SubSeq(s, i + 1, i + Len(p)) = p

\* ------------------------------------------------------- action grammar

\* ".+" in a pattern: one or more characters other than a newline
Wild == ".+"

\* WhiteAgent.VALID_ACTIONS, each pattern anchored at both ends
VALID_ACTIONS == <<
    <<"go", " ", "to", " ", Wild>>,
    <<"take", " ", Wild, " ", "from", " ", Wild>>,
    <<"put", " ", Wild, " ", "in/on", " ", Wild>>,
    <<"put", " ", Wild, " ", "in", " ", Wild>>,
    <<"put", " ", Wild, " ", "on", " ", Wild>>,
    <<"open", " ", Wild>>,
    <<"close", " ", Wild>>,
    <<"toggle", " ", Wild>>,
    <<"heat", " ", Wild, " ", "with", " ", Wild>>,
    <<"cool", " ", Wild, " ", "with", " ", Wild>>,
    <<"clean", " ", Wild, " ", "with", " ", Wild>>,
    <<"use", " ", Wild>>,
    <<"examine", " ", Wild>>,
    <<"look">>,
    <<"inventory">>,
    <<"turn", " ", "on", " ", Wild>>,
    <<"turn", " ", "off", " ", Wild>> >>

\* re.match(pattern, s) for an anchored pattern of literal atoms and ".+"
RECURSIVE ReMatch(_, _)
ReMatch(p, s) ==
    IF p = <<>> THEN s = <<>>
    ELSE IF Head(p) = Wild
    THEN \E k \in 1..Len(s) :
            /\ \A i \in 1..k : s[i] # "\n"
            /\ ReMatch(Tail(p), SubSeq(s, k + 1, Len(s)))
    ELSE s # <<>> /\ Head(s) = Head(p) /\ ReMatch(Tail(p), Tail(s))

_is_valid_action(action) ==
    LET action_lower == Strip(Lower(action))
    IN \E i \in 1..Len(VALID_ACTIONS) : ReMatch(VALID_ACTIONS[i], action_lower)

\* ------------------------------------------------------- response parser

LOOK == <<"look">>

ThinkMarkers == { <<">", " ", "think:">>, <<">think:">> }
ActionLabels == {"action:", "Action:", "ACTION:"}

\* re.sub(r'^(action:|Action:|ACTION:)\s*', '', s)
RemoveLabel(s) ==
    IF s # <<>> /\ Head(s) \in ActionLabels
    THEN LStripSet(Tail(s), Whitespace) ELSE s

\* strip('"\'`') followed by the label removal
CleanLine(line) == RemoveLabel(StripSet(line, QuoteChars))

\* the stripped lines that are neither thinking lines nor empty
ActionLines(content) ==
    LET lines == SplitLines(Strip(content))
        stripped == [i \in 1..Len(lines) |-> Strip(lines[i])]
        Keep(line) == /\ ~ \E m \in ThinkMarkers : StartsWith(line, m)
                      /\ line # <<>>
    IN SelectSeq(stripped, Keep)

\* for line in reversed(action_lines): the first cleaned line that validates
RECURSIVE LastValidLine(_)
LastValidLine(action_lines) ==
    IF action_lines = <<>> THEN None
    ELSE IF _is_valid_action(CleanLine(action_lines[Len(action_lines)]))
    THEN Some(CleanLine(action_lines[Len(action_lines)]))
    ELSE LastValidLine(SubSeq(action_lines, 1, Len(action_lines) - 1))

\* agent.py 139-151: the cleaned last line if it validates, else the last
\* line that validates, else the cleaned last line, else "look"
PickAction(candidate, found) ==
    IF _is_valid_action(candidate) THEN candidate
    ELSE IF found # None THEN found[1]
    ELSE IF candidate # <<>> THEN candidate ELSE LOOK

\* agent.py 129-151
ExtractFromLines(action_lines) ==
    IF action_lines = <<>> THEN LOOK
    ELSE PickAction(CleanLine(action_lines[Len(action_lines)]),
                    LastValidLine(action_lines))

_extract_action(content) ==
    IF content = <<>> THEN LOOK ELSE ExtractFromLines(ActionLines(content))

\* ------------------------------------------------------- fallback policy

\* the heuristic testing for the inventory before the lamp and the fridge
FallbackInventoryFirst(observation) ==
    LET obs == Lower(observation)
    IN IF Contains(obs, "inventory") THEN <<"inventory">>
       ELSE IF Contains(obs, "lamp") /\ Contains(obs, "off")
       THEN <<"turn", " ", "on", " ", "lamp">>
       ELSE IF Contains(obs, "fridge") /\ Contains(obs, "apple")
       THEN <<"put", " ", "apple", " ", "in", " ", "fridge">>
       ELSE <<"look">>

_fallback_action(observation) ==
    LET obs == Lower(observation)
    IN IF Contains(obs, "lamp") /\ Contains(obs, "off")
       THEN <<"turn", " ", "on", " ", "lamp">>
       ELSE IF Contains(obs, "fridge") /\ Contains(obs, "apple")
       THEN <<"put", " ", "apple", " ", "in", " ", "fridge">>
       ELSE IF Contains(obs, "inventory") THEN <<"inventory">>
       ELSE LOOK

\* ---------------------------------------------------- behaviour detectors

\* repetition detected by exact comparison, without lower() and strip()
DetectRepetitionExact(st, action) ==
    LET last == Get(st, "last_action", None)
    IN /\ last # None
       /\ last[1] # <<>>
       /\ action = last[1]

_detect_repetition(st, action) ==
    LET last == Get(st, "last_action", None)
    IN /\ last # None
       /\ last[1] # <<>>
       /\ Strip(Lower(action)) = Strip(Lower(last[1]))

\* the detector comparing only the candidate with the action two back
DetectCycleOnePair(st, action, window) ==
    LET seq == Get(st, "action_sequence", <<>>)
    IN IF Len(seq) < window - 1 THEN FALSE
       ELSE seq[Len(seq) - 1] = action

_detect_cycle(st, action, window) ==
    LET seq == Get(st, "action_sequence", <<>>)
    IN IF Len(seq) < window - 1 THEN FALSE
       ELSE LET recent == SubSeq(seq, Len(seq) - (window - 1) + 1, Len(seq))
                              \o <<action>>
                n == Len(recent)
            IN /\ n >= 4
               /\ recent[n] = recent[n - 2]
               /\ recent[n - 1] = recent[n - 3]

\* -------------------------------------------------------- cleanup tracker

\* str.replace(old, ""): every non-overlapping occurrence, left to right
RECURSIVE RemoveAll(_, _)
RemoveAll(s, old) ==
    IF s = <<>> THEN <<>>
    ELSE IF StartsWith(s, old)
    THEN RemoveAll(SubSeq(s, Len(old) + 1, Len(s)), old)
    ELSE <<Head(s)>> \o RemoveAll(Tail(s), old)

OpenPrefix == <<"open", " ">>
ClosePrefix == <<"close", " ">>

\* _track_container raises KeyError when the set it indexes is not in the dict
TrackRaises(st, action) ==
    LET action_lower == Lower(action)
    IN \/ StartsWith(action_lower, OpenPrefix)
          /\ "opened_containers" \notin DOMAIN st
       \/ StartsWith(action_lower, ClosePrefix)
          /\ "closed_containers" \notin DOMAIN st

\* the dict after _track_container returned (the sets are updated in place)
_track_container(st, action) ==
    LET action_lower == Lower(action)
        st1 == IF StartsWith(action_lower, OpenPrefix)
               THEN Put(st, "opened_containers",
                        st["opened_containers"]
                            \cup {Strip(RemoveAll(action_lower, OpenPrefix))})
               ELSE st
    IN IF StartsWith(action_lower, ClosePrefix)
       THEN Put(st1, "closed_containers",
                st1["closed_containers"]
                    \cup {Strip(RemoveAll(action_lower, ClosePrefix))})
       ELSE st1

\* the score counting every observed close, of a container opened or not
CleanupScoreEveryClose(st) ==
    LET opened == Get(st, "opened_containers", {})
        closed == Get(st, "closed_containers", {})
    IN IF opened = {} THEN [num |-> 1, den |-> 1]
       ELSE [num |-> Cardinality(closed), den |-> Cardinality(opened)]

\* the score as a fraction num/den; 1.0 is 1/1
_calculate_cleanup_score(st) ==
    LET opened == Get(st, "opened_containers", {})
        closed == Get(st, "closed_containers", {})
    IN IF opened = {} THEN [num |-> 1, den |-> 1]
       ELSE [num |-> Cardinality(opened \cap closed), den |-> Cardinality(opened)]

\* ------------------------------------------------------ reflection engine

\* f"{reward}" for the rewards of the model
RewardText(reward) == IF reward = 0 THEN <<"0.0">> ELSE <<"1.0">>

\* f"{score:.0%}": the percentage rounded to an integer, ties to even
PercentText(score) ==
    LET q == (100 * score.num) \div score.den
        r == (100 * score.num) % score.den
        p == IF 2 * r < score.den THEN q
             ELSE IF 2 * r > score.den THEN q + 1
             ELSE IF q % 2 = 0 THEN q ELSE q + 1
    IN <<ToString(p), "%">>

CountOf(actions, a) == Cardinality({i \in 1..Len(actions) : actions[i] = a})

\* repeated[0]: dict order is first-insertion order, so the first action of the
\* trajectory among those that occur at least 3 times
FirstRepeated(actions) ==
    LET idx == {i \in 1..Len(actions) : CountOf(actions, actions[i]) >= 3}
    IN IF idx = {} THEN None
       ELSE Some(actions[CHOOSE i \in idx : \A j \in idx : i <= j])

HasLoop(actions) ==
    \E i \in 1..(Len(actions) - 3) :
        actions[i] = actions[i + 2] /\ actions[i + 1] = actions[i + 3]

CleanupLesson == <<"Always close containers/appliances after use.">>
LoopLesson == <<"Avoid navigation loops (going back and forth).">>
CleanStateLesson == <<"Verify object state (clean/dirty) before placing.">>
TemperatureLesson == <<"Verify temperature state before placing.">>
AlternativeLesson == <<"Try alternative exploration paths when stuck.">>
ContinueLesson == <<"Continue systematic exploration.">>
NoTrajectory == <<"No trajectory recorded.">>
RepeatLesson(a) == <<"Avoid repeating actions like '">> \o a \o <<"' excessively.">>
SuccessLesson(a) == <<"Success: completed with '">> \o a \o <<"'.">>

\* the cascade without the failure clause: only a positive reward adds the
\* fourth clause
LessonListNoFailure(st) ==
    LET traj == Get(st, "trajectory", <<>>)
        last == traj[Len(traj)]
        score == _calculate_cleanup_score(st)
        actions == [i \in 1..Len(traj) |-> traj[i].action]
        repeated == FirstRepeated(actions)
        l1 == IF score.num < score.den THEN <<CleanupLesson>> ELSE <<>>
        l2 == IF repeated # None THEN <<RepeatLesson(repeated[1])>> ELSE <<>>
        l3 == IF HasLoop(actions) THEN <<LoopLesson>> ELSE <<>>
        l4 == IF last.reward > 0 THEN <<SuccessLesson(last.action)>> ELSE <<>>
        found == l1 \o l2 \o l3 \o l4
    IN IF found = <<>> THEN <<ContinueLesson>> ELSE found

\* the clauses in cascade order, before the cut to two
LessonList(st) ==
    LET traj == Get(st, "trajectory", <<>>)
        last == traj[Len(traj)]
        score == _calculate_cleanup_score(st)
        actions == [i \in 1..Len(traj) |-> traj[i].action]
        repeated == FirstRepeated(actions)
        last_obs == Lower(last.observation)
        l1 == IF score.num < score.den THEN <<CleanupLesson>> ELSE <<>>
        l2 == IF repeated # None THEN <<RepeatLesson(repeated[1])>> ELSE <<>>
        l3 == IF HasLoop(actions) THEN <<LoopLesson>> ELSE <<>>
        l4 == IF last.reward > 0 THEN <<SuccessLesson(last.action)>>
              ELSE IF last.done
              THEN IF Contains(last_obs, "clean") \/ Contains(last_obs, "dirty")
                   THEN <<CleanStateLesson>>
                   ELSE IF Contains(last_obs, "hot") \/ Contains(last_obs, "cold")
                   THEN <<TemperatureLesson>>
                   ELSE <<AlternativeLesson>>
              ELSE <<>>
        found == l1 \o l2 \o l3 \o l4
    IN IF found = <<>> THEN <<ContinueLesson>> ELSE found

\* the clauses without the cut to two
AllClauses(all) == all

\* lessons[:2]
FirstTwo(all) == SubSeq(all, 1, IF Len(all) < 2 THEN Len(all) ELSE 2)

_summarize_trajectory(st) ==
    IF Get(st, "trajectory", <<>>) = <<>> THEN NoTrajectory
    ELSE Join(<<" ">>, FirstTwo(LessonList(st)))

\* _add_reflection without the cut to capacity
AddReflectionUnbounded(store, reflection, capacity) ==
    IF reflection = <<>> THEN store ELSE <<reflection>> \o store

\* _add_reflection appending at the tail instead of inserting at index 0
AddReflectionAtEnd(store, reflection, capacity) ==
    IF reflection = <<>> THEN store
    ELSE IF Len(store) + 1 > capacity
    THEN SubSeq(Append(store, reflection), 1, capacity)
    ELSE Append(store, reflection)

\* self.reflections after _add_reflection(reflection)
_add_reflection(store, reflection, capacity) ==
    IF reflection = <<>> THEN store
    ELSE LET inserted == <<reflection>> \o store
         IN IF Len(inserted) > capacity
            THEN SubSeq(inserted, 1, capacity) ELSE inserted

\* ---------------------------------------------------------- system prompt

\* self.system_prompt: the card's description
system_prompt == <<"You are an ALFWorld agent.">>

_recent_lessons(store, capacity) ==
    IF store = <<>> THEN <<>>
    ELSE LET shown == SubSeq(store, 1,
                             IF Len(store) < capacity THEN Len(store) ELSE capacity)
         IN <<"Recent lessons from past episodes:", "\n", "-", " ">>
                \o Join(<<"\n", "-", " ">>, shown)

_build_system_prompt(store, capacity) ==
    LET shown == _recent_lessons(store, capacity)
    IN IF shown # <<>>
       THEN system_prompt \o <<"\n", "\n", "---", "\n">> \o shown
       ELSE system_prompt

Entry(role, content) == [role |-> role, content |-> content]

ObservationText(observation) == <<"Observation:", " ">> \o observation

\* ------------------------------------------------------------------ inputs

\* observation texts given to reset and act
Observations == { <<"kitchen">>, <<"Lamp", " ", "is", " ", "off">> }

\* env_info as given to reset: a str, or a dict with or without "obs"
StrInfo(text) == [kind |-> "str", text |-> text, d |-> EmptyDict]
DictInfo(d) == [kind |-> "dict", text |-> <<>>, d |-> d]
EnvInfos == { StrInfo(<<"kitchen">>),
              DictInfo([obs |-> <<"Lamp", " ", "is", " ", "off">>]),
              DictInfo(EmptyDict) }

\* the env_info of the episodes that start from one fixed task
KitchenInfo == StrInfo(<<"kitchen">>)
PlateTaskInfo == StrInfo(<<"a", " ", "cleaned", " ", "plate">>)

\* every observation text given to reset as a str
ObservationInfos == { StrInfo(o) : o \in Observations }

\* raw texts the model may return (before the .strip() in act)
Responses == {
    <<"look">>,
    <<"Action:", " ", "LOOK">>,
    <<">", " ", "think:", " ", "plan", "\n", "open", " ", "fridge">>,
    <<"I", " ", "will", " ", "dance">>,
    <<">", " ", "think:", " ", "plan">>,
    <<"\"", " ", "\"">>,
    <<" ">> }

\* outcome of one model call: None when it raised, timed out or was malformed
LLMOutcomes == {None} \cup {Some(r) : r \in Responses}

\* the outcomes explored where the episode bookkeeping is the subject
FewOutcomes == {None, Some(<<"look">>)}

\* arguments of observe
ObservedActions == { <<"look">>, <<"open", " ", "fridge">>, <<"close", " ", "fridge">> }
Rewards == {0, 1}
NotADict == [kind |-> "none", d |-> EmptyDict]
NoFeedback == [kind |-> "dict", d |-> EmptyDict]
Infos == { NoFeedback, [kind |-> "dict", d |-> [feedback |-> <<"ok">>]], NotADict }

\* observations that exercise every branch and every precedence of the
\* keyword heuristic
FallbackObservations == {
    <<"apple", " ", "on", " ", "table">>,
    <<"The", " ", "Lamp", " ", "is", " ", "OFF">>,
    <<"lamp", " ", "off", " ", "apple", " ", "in", " ", "fridge", " ", "inventory">>,
    <<"apple", " ", "in", " ", "Fridge", " ", "inventory">>,
    <<"your", " ", "inventory">>,
    <<"lamp", " ", "by", " ", "the", " ", "coffee">> }

\* open and close actions on two containers
ContainerActions == {
    <<"open", " ", "fridge">>, <<"open", " ", "drawer">>,
    <<"close", " ", "fridge">>, <<"close", " ", "drawer">> }

\* object names in either letter case, one of them containing the word "open"
NamedContainers == { <<"fridge">>, <<"Fridge">>, <<"open", " ", "box">> }

\* open X and close X for the names above
NamingActions ==
    { <<verb, " ">> \o x : verb \in {"open", "close"}, x \in NamedContainers }

\* actions observed in the long episodes
EpisodeActions == { <<"open", " ", "fridge">>, <<"look">> }

\* reward and done flag of one environment step: the reward comes with the end
StepOutcomes == { <<0, FALSE>>, <<0, TRUE>>, <<1, TRUE>> }

\* candidate actions handed to _detect_cycle, and its default window
CycleCandidates == { <<"look">>, <<"turn", " ", "on", " ", "lamp">> }
DefaultWindow == 4

\* configured values of max_reflections (agent.py 51)
Capacities == 0..MaxCfgReflections

\* ------------------------------------------------------------ state machine

NoCall == [op |-> "init", args |-> <<>>, raised |-> FALSE, ret |-> None]

\* server.py 62: context_to_agent has no entry for the context.  While an
\* entry exists, state, reflections and the configuration are those of its
\* agent, resets and acts count the calls the executor made on it, and
\* removed counts the agents cancel has deleted for the context.
NoAgent == [bound |-> FALSE, resets |-> 0, acts |-> 0, removed |-> 0]

\* __init__: empty state, no reflections; the configuration is fixed from here
Init ==
    /\ state = EmptyDict
    /\ reflections = <<>>
    /\ client \in BOOLEAN
    /\ max_reflections \in Capacities
    /\ track_cleanup \in BOOLEAN
    /\ call = NoCall
    /\ llm_calls = <<>>
    /\ lessons = <<>>
    /\ origin = "none"
    /\ calls = 0
    /\ executor = NoAgent
    /\ limit = MaxCalls

ResetObservation(env_info) ==
    IF env_info.kind = "str" THEN env_info.text ELSE Get(env_info.d, "obs", <<>>)

\* reset updating the old dict in place (dict.update) instead of replacing
\* it: keys of the episode before, such as done and last_reward, survive
ResetStateMerged(env_info, store, capacity) ==
    LET fresh == [step |-> 0,
                  history |-> << Entry("system", _build_system_prompt(store, capacity)),
                                 Entry("user", ObservationText(ResetObservation(env_info))) >>,
                  trajectory |-> <<>>,
                  last_observation |-> ResetObservation(env_info),
                  last_action |-> None,
                  opened_containers |-> {},
                  closed_containers |-> {},
                  action_sequence |-> <<>>]
    IN [k \in (DOMAIN state) \cup (DOMAIN fresh) |->
            IF k \in DOMAIN fresh THEN fresh[k] ELSE state[k]]

\* self.state after reset(env_info)
ResetState(env_info, store, capacity) ==
    LET observation == ResetObservation(env_info)
    IN [step |-> 0,
        history |-> << Entry("system", _build_system_prompt(store, capacity)),
                       Entry("user", ObservationText(observation)) >>,
        trajectory |-> <<>>,
        last_observation |-> observation,
        last_action |-> None,
        opened_containers |-> {},
        closed_containers |-> {},
        action_sequence |-> <<>>]

reset(env_info) ==
    /\ calls < limit
    /\ state' = ResetState(env_info, reflections, max_reflections)
    /\ call' = [op |-> "reset", args |-> <<env_info>>, raised |-> FALSE,
                ret |-> Some(ResetObservation(env_info))]
    /\ llm_calls' = <<>>
    /\ origin' = "reset"
    /\ calls' = calls + 1
    /\ UNCHANGED <<reflections, client, max_reflections, track_cleanup, lessons, limit,
                   executor>>

\* the first call on a constructed agent creates the state when it is not reset
Originate(op) == IF origin = "none" THEN op ELSE origin

WarningText(last_action) ==
    <<"\n", "[Note: Avoid repeating '">> \o last_action \o <<"' if it didn't work.]">>

RetryText(action) ==
    <<"You just did '">> \o action
        \o <<"' and it didn't help. Try a DIFFERENT action.">>

\* act appending the observation entry to every non-empty history
ActHistoryAlwaysAppends(history, observation, store, capacity) ==
    IF history # <<>>
    THEN Append(history, Entry("user", ObservationText(observation)))
    ELSE << Entry("system", _build_system_prompt(store, capacity)),
            Entry("user", ObservationText(observation)) >>

\* agent.py 216-224: the history list after the first lines of act
ActHistory(history, observation, store, capacity) ==
    IF history # <<>> /\ history[Len(history)].role = "assistant"
    THEN Append(history, Entry("user", ObservationText(observation)))
    ELSE IF history = <<>>
    THEN << Entry("system", _build_system_prompt(store, capacity)),
            Entry("user", ObservationText(observation)) >>
    ELSE history

\* act resetting step on every call, not only when it creates the history
ActPrepareResetsStep(st, observation, store, capacity) ==
    Put(Put(Put(st, "step", 0), "last_observation", observation),
        "history",
        ActHistory(Get(st, "history", <<>>), observation, store, capacity))

\* agent.py 213-226: self.state before the model is consulted
ActPrepare(st, observation, store, capacity) ==
    Put(Put(IF Get(st, "history", <<>>) = <<>> THEN Put(st, "step", 0) ELSE st,
            "last_observation", observation),
        "history",
        ActHistory(Get(st, "history", <<>>), observation, store, capacity))

\* agent.py 234-242: the transcript of the first model call, a copy of the
\* history whose last user entry carries the warning when last_action is set
ActMessages(history, last_action) ==
    IF /\ last_action # None
       /\ last_action[1] # <<>>
       /\ history # <<>>
       /\ history[Len(history)].role = "user"
    THEN [history EXCEPT ![Len(history)] =
              Entry("user", @.content \o WarningText(last_action[1]))]
    ELSE history

\* what the try block leaves behind: action and content (None when unset) and
\* the transcripts sent
Decided(action, content, sent) ==
    [action |-> action, content |-> content, sent |-> sent]

\* the retry's action adopted while the first answer stays the content
AdoptRetryFirstContent(action, content, retry_action, retry_content, sent) ==
    IF retry_action # action
    THEN Decided(Some(retry_action), Some(content), sent)
    ELSE Decided(Some(action), Some(content), sent)

\* agent.py 264-268: the retry answered
AdoptRetry(action, content, retry_action, retry_content, sent) ==
    IF retry_action # action
    THEN Decided(Some(retry_action), Some(retry_content), sent)
    ELSE Decided(Some(action), Some(content), sent)

\* agent.py 253-268: the first call answered and was parsed
AfterFirstCall(st, messages, action, content, r2) ==
    IF _detect_repetition(st, action)
    THEN IF r2 = None
         THEN Decided(Some(action), Some(content),
                      <<messages, Append(messages, Entry("user", RetryText(action)))>>)
         ELSE AdoptRetry(action, content,
                         _extract_action(Strip(r2[1])), Strip(r2[1]),
                         <<messages, Append(messages, Entry("user", RetryText(action)))>>)
    ELSE Decided(Some(action), Some(content), <<messages>>)

\* agent.py 231-274
ModelCalls(st, has_client, messages, r1, r2) ==
    IF ~has_client THEN Decided(None, None, <<>>)
    ELSE IF r1 = None THEN Decided(None, None, <<messages>>)
    ELSE AfterFirstCall(st, messages, _extract_action(Strip(r1[1])), Strip(r1[1]), r2)

\* agent.py 281-285
ActCommit(st, action, content, sent) ==
    [state |-> Put(Put(Put(st, "history",
                           Append(st["history"], Entry("assistant", content))),
                       "last_action", Some(action)),
                   "action_sequence",
                   Append(Get(st, "action_sequence", <<>>), action)),
     ret |-> action,
     sent |-> sent]

\* act without the fallback: an unset action is returned as the empty string
ActFallbackSkipped(st, observation, action, content, sent) ==
    ActCommit(st,
              IF action = None THEN <<>> ELSE action[1],
              IF content = None THEN <<>> ELSE content[1],
              sent)

\* agent.py 276-279
ActFallback(st, observation, action, content, sent) ==
    ActCommit(st,
              IF action = None \/ action[1] = <<>>
              THEN _fallback_action(observation) ELSE action[1],
              IF content = None \/ content[1] = <<>>
              THEN (IF action = None \/ action[1] = <<>>
                    THEN _fallback_action(observation) ELSE action[1])
              ELSE content[1],
              sent)

ActDecide(st, observation, decided) ==
    ActFallback(st, observation, decided.action, decided.content, decided.sent)

\* act building the transcript in place: the warned entry replaces the
\* stored one
ActOnWarningStored(st, observation, has_client, r1, r2) ==
    ActDecide(Put(st, "history",
                  ActMessages(st["history"], Get(st, "last_action", None))),
              observation,
              ModelCalls(st, has_client,
                         ActMessages(st["history"], Get(st, "last_action", None)),
                         r1, r2))

ActOn(st, observation, has_client, r1, r2) ==
    ActDecide(st, observation,
              ModelCalls(st, has_client,
                         ActMessages(st["history"], Get(st, "last_action", None)),
                         r1, r2))

\* act(observation) with the outcomes r1, r2 of the first and the retry model
\* call: the new state, the returned action and the transcripts sent
act(st, observation, has_client, r1, r2, store, capacity) ==
    ActOn(ActPrepare(st, observation, store, capacity), observation,
          has_client, r1, r2)

ActStep(out, observation, r1, r2) ==
    /\ calls < limit
    \* an outcome is drawn only for a model call that is made
    /\ Len(out.sent) < 1 => r1 = None
    /\ Len(out.sent) < 2 => r2 = None
    /\ state' = out.state
    /\ call' = [op |-> "act", args |-> <<observation, r1, r2>>,
                raised |-> FALSE, ret |-> Some(out.ret)]
    /\ llm_calls' = out.sent
    /\ origin' = Originate("act")
    /\ calls' = calls + 1
    /\ UNCHANGED <<reflections, client, max_reflections, track_cleanup, lessons, limit,
                   executor>>

Act(observation, r1, r2) ==
    ActStep(act(state, observation, client, r1, r2, reflections, max_reflections),
            observation, r1, r2)

Feedback(info) ==
    IF info.kind = "dict" /\ "feedback" \in DOMAIN info.d
    THEN Some(info.d["feedback"]) ELSE None

EndMessage(reward, score, info) ==
    <<"Episode finished.", " ", "Reward:", " ">> \o RewardText(reward)
        \o <<".", " ", "Cleanup score:", " ">> \o PercentText(score) \o <<".">>
        \o (IF Feedback(info) # None /\ Feedback(info)[1] # <<>>
            THEN <<" ", "Evaluator feedback:", " ">> \o Feedback(info)[1]
            ELSE <<>>)

LessonEntry(reflection) ==
    Entry("system", <<"Lesson learned:", " ">> \o reflection)

\* agent.py 353-355
ObserveCounters(st, reward, done) ==
    Put(Put(Put(st, "step", Get(st, "step", 0) + 1), "last_reward", reward),
        "done", done)

\* observe raises when _track_container does
ObserveRaises(st, action, tracking) == tracking /\ TrackRaises(st, action)

\* agent.py 357-369, for a call that does not raise
ObserveRecord(st, action, reward, done, info, tracking) ==
    LET st1 == ObserveCounters(st, reward, done)
        st2 == IF tracking THEN _track_container(st1, action) ELSE st1
        record == [observation |-> Get(st2, "last_observation", <<>>),
                   action |-> action,
                   reward |-> reward,
                   done |-> done,
                   feedback |-> Feedback(info)]
    IN Put(st2, "trajectory", Append(Get(st2, "trajectory", <<>>), record))

\* agent.py 375-382: the history after the end-of-episode entries
ObserveDone(st, reward, info, reflection) ==
    Put(st, "history",
        Get(st, "history", <<>>)
            \o << Entry("user",
                        EndMessage(reward, _calculate_cleanup_score(st), info)),
                  LessonEntry(reflection) >>)

\* agent.py 371-382, on the state that holds the new record
ObserveFinish(st, action, reward, done, info, reflection) ==
    /\ state' = IF done THEN ObserveDone(st, reward, info, reflection) ELSE st
    /\ reflections' = IF done
                      THEN _add_reflection(reflections, reflection, max_reflections)
                      ELSE reflections
    /\ lessons' = IF done THEN Append(lessons, reflection) ELSE lessons
    /\ call' = [op |-> "observe", args |-> <<action, reward, done, info>>,
                raised |-> FALSE, ret |-> None]

ObserveReturn(st, action, reward, done, info) ==
    ObserveFinish(st, action, reward, done, info, _summarize_trajectory(st))

observe(action, reward, done, info) ==
    /\ calls < limit
    /\ IF ObserveRaises(state, action, track_cleanup)
       THEN \* KeyError leaves the counters written and nothing else
            /\ state' = ObserveCounters(state, reward, done)
            /\ call' = [op |-> "observe", args |-> <<action, reward, done, info>>,
                        raised |-> TRUE, ret |-> None]
            /\ UNCHANGED <<reflections, lessons>>
       ELSE ObserveReturn(ObserveRecord(state, action, reward, done, info,
                                        track_cleanup),
                          action, reward, done, info)
    /\ llm_calls' = <<>>
    /\ origin' = Originate("observe")
    /\ calls' = calls + 1
    /\ UNCHANGED <<client, max_reflections, track_cleanup, limit, executor>>

EpisodeStats(st, store) ==
    [steps |-> Get(st, "step", 0),
     reward |-> Get(st, "last_reward", 0),
     cleanup_score |-> _calculate_cleanup_score(st),
     trajectory_length |-> Len(Get(st, "trajectory", <<>>)),
     reflections_count |-> Len(store)]

get_episode_stats ==
    /\ calls < limit
    /\ call' = [op |-> "get_episode_stats", args |-> <<>>, raised |-> FALSE,
                ret |-> Some(EpisodeStats(state, reflections))]
    /\ llm_calls' = <<>>
    /\ calls' = calls + 1
    /\ UNCHANGED <<state, reflections, client, max_reflections, track_cleanup,
                   lessons, origin, limit, executor>>

\* _detect_cycle(action) called on the instance: a query, the dict is not
\* written
DetectCycle(action) ==
    /\ calls < limit
    /\ call' = [op |-> "_detect_cycle", args |-> <<action>>, raised |-> FALSE,
                ret |-> Some(_detect_cycle(state, action, DefaultWindow))]
    /\ llm_calls' = <<>>
    /\ calls' = calls + 1
    /\ UNCHANGED <<state, reflections, client, max_reflections, track_cleanup,
                   lessons, origin, limit, executor>>

\* server.py 72: max_reflections of the agents the executor creates
ServerMaxReflections == 3

\* the executor always resetting before act
NeedsResetAlways(st) == TRUE

\* server.py 117: not agent.state or agent.state.get("done", False)
NeedsReset(st) == st = EmptyDict \/ Get(st, "done", FALSE)

\* server.py 117-118: the agent's dict when execute reaches act
ExecuteState(st, user_input, store, capacity) ==
    IF NeedsReset(st) THEN ResetState(StrInfo(user_input), store, capacity) ELSE st

ExecuteStep(out, was_reset, user_input, r1, r2) ==
    /\ calls < limit
    \* an outcome is drawn only for a model call that is made
    /\ Len(out.sent) < 1 => r1 = None
    /\ Len(out.sent) < 2 => r2 = None
    /\ state' = out.state
    /\ call' = [op |-> "execute", args |-> <<user_input, r1, r2>>,
                raised |-> FALSE, ret |-> Some(out.ret)]
    /\ llm_calls' = out.sent
    /\ origin' = IF was_reset THEN "reset" ELSE origin
    /\ executor' = [executor EXCEPT !.bound = TRUE,
                                    !.resets = @ + (IF was_reset THEN 1 ELSE 0),
                                    !.acts = @ + 1]
    /\ calls' = calls + 1
    /\ UNCHANGED <<reflections, client, max_reflections, track_cleanup, lessons,
                   limit>>

\* server.py 111-126: one request on the context.  _get_or_create_agent finds
\* the agent or creates one with an empty dict and no reflections, which is
\* what state and reflections hold while no agent is bound.
Execute(user_input, r1, r2) ==
    ExecuteStep(act(ExecuteState(state, user_input, reflections, max_reflections),
                    user_input, client, r1, r2, reflections, max_reflections),
                NeedsReset(state), user_input, r1, r2)

\* server.py 128-132: the context's agent is deleted
Cancel ==
    /\ calls < limit
    /\ state' = EmptyDict
    /\ reflections' = <<>>
    /\ lessons' = <<>>
    /\ origin' = "none"
    /\ executor' = [bound |-> FALSE, resets |-> 0, acts |-> 0,
                    removed |-> executor.removed + (IF executor.bound THEN 1 ELSE 0)]
    /\ call' = [op |-> "cancel", args |-> <<>>, raised |-> FALSE, ret |-> None]
    /\ llm_calls' = <<>>
    /\ calls' = calls + 1
    /\ UNCHANGED <<client, max_reflections, track_cleanup, limit>>

\* the agent with every argument of observe varied, few model outcomes
Next ==
    \/ \E env_info \in EnvInfos : reset(env_info)
    \/ \E observation \in Observations, r1 \in FewOutcomes, r2 \in FewOutcomes :
           Act(observation, r1, r2)
    \/ \E action \in ObservedActions, reward \in Rewards, done \in BOOLEAN :
           observe(action, reward, done, NoFeedback)
    \/ get_episode_stats

Spec == Init /\ [][Next]_vars

\* the agent with every model outcome varied, few arguments of observe
InitLLM ==
    /\ state = EmptyDict
    /\ reflections = <<>>
    /\ client \in BOOLEAN
    /\ max_reflections = 1
    /\ track_cleanup = TRUE
    /\ call = NoCall
    /\ llm_calls = <<>>
    /\ lessons = <<>>
    /\ origin = "none"
    /\ calls = 0
    /\ executor = NoAgent
    /\ limit = MaxCalls

NextLLM ==
    \/ \E env_info \in ObservationInfos : reset(env_info)
    \/ \E observation \in Observations, r1 \in LLMOutcomes, r2 \in LLMOutcomes :
           Act(observation, r1, r2)
    \/ \E done \in BOOLEAN, info \in Infos :
           observe(<<"open", " ", "fridge">>, 0, done, info)
    \/ get_episode_stats

SpecLLM == InitLLM /\ [][NextLLM]_vars

\* the agent constructed without a model (no API key)
InitOffline ==
    /\ state = EmptyDict
    /\ reflections = <<>>
    /\ client = FALSE
    /\ max_reflections = 1
    /\ track_cleanup = TRUE
    /\ call = NoCall
    /\ llm_calls = <<>>
    /\ lessons = <<>>
    /\ origin = "none"
    /\ calls = 0
    /\ executor = NoAgent

\* every branch of the keyword heuristic
InitFallback == InitOffline /\ limit = MaxCalls

NextFallback ==
    \/ reset(KitchenInfo)
    \/ \E observation \in FallbackObservations : Act(observation, None, None)
    \/ \E reward \in Rewards, done \in BOOLEAN :
           observe(<<"look">>, reward, done, NoFeedback)
    \/ get_episode_stats

SpecFallback == InitFallback /\ [][NextFallback]_vars

\* episodes of open and close actions on two containers
InitCleanup == InitOffline /\ limit = MaxEpisodeCalls

NextCleanup ==
    \/ reset(KitchenInfo)
    \/ Act(<<"kitchen">>, None, None)
    \/ \E action \in ContainerActions, done \in BOOLEAN :
           observe(action, 0, done, NoFeedback)
    \/ get_episode_stats

SpecCleanup == InitCleanup /\ [][NextCleanup]_vars

\* open and close actions on containers of various names
InitNames == InitOffline /\ limit = MaxCalls

NextNames ==
    \/ reset(KitchenInfo)
    \/ \E action \in NamingActions, done \in BOOLEAN :
           observe(action, 0, done, NoFeedback)
    \/ get_episode_stats

SpecNames == InitNames /\ [][NextNames]_vars

\* long episodes: trajectories of up to MaxObserved records
InitEpisode ==
    /\ state = EmptyDict
    /\ reflections = <<>>
    /\ client = FALSE
    /\ max_reflections = 1
    /\ track_cleanup \in BOOLEAN
    /\ call = NoCall
    /\ llm_calls = <<>>
    /\ lessons = <<>>
    /\ origin = "none"
    /\ calls = 0
    /\ executor = NoAgent
    /\ limit = MaxObserved

NextEpisode ==
    \/ reset(PlateTaskInfo)
    \/ \E action \in EpisodeActions, outcome \in StepOutcomes :
           observe(action, outcome[1], outcome[2], NoFeedback)

SpecEpisode == InitEpisode /\ [][NextEpisode]_vars

\* action sequences built by act, queried by the cycle detector
InitCycle == InitOffline /\ limit = MaxEpisodeCalls

NextCycle ==
    \/ reset(KitchenInfo)
    \/ \E observation \in Observations : Act(observation, None, None)
    \/ \E action \in CycleCandidates : DetectCycle(action)

SpecCycle == InitCycle /\ [][NextCycle]_vars

\* the server executor serving requests and cancellations on one context id;
\* the agents it creates take their model handle from the environment
InitServer ==
    /\ state = EmptyDict
    /\ reflections = <<>>
    /\ client \in BOOLEAN
    /\ max_reflections = ServerMaxReflections
    /\ track_cleanup = TRUE
    /\ call = NoCall
    /\ llm_calls = <<>>
    /\ lessons = <<>>
    /\ origin = "none"
    /\ calls = 0
    /\ limit = MaxEpisodeCalls
    /\ executor = NoAgent

NextServer ==
    \/ \E user_input \in Observations, r1 \in FewOutcomes, r2 \in FewOutcomes :
           Execute(user_input, r1, r2)
    \/ Cancel

SpecServer == InitServer /\ [][NextServer]_vars

\* ------------------------------------------------------------------ claims

History == Get(state, "history", <<>>)
Trajectory == Get(state, "trajectory", <<>>)

\* the retry call of the last act was made
RetryIssued == Len(llm_calls) = 2

\* C1: whatever the model does, the string act returns is accepted by
\* _is_valid_action.  (Stated as claimed; the parser hands back a last line
\* that matches no pattern and act returns it.)
C1_ActReturnsValidAction ==
    call.op = "act" => _is_valid_action(call.ret[1])

\* C2: when a model call inside act failed (the first or the retry) or the
\* agent has no model, act returns the fallback heuristic's action for the
\* observation it was given.  (Stated as claimed; a failed retry keeps the
\* action parsed from the first answer.)
C2_FailureMeansFallback ==
    ( /\ call.op = "act"
      /\ \/ ~client
         \/ call.args[2] = None
         \/ RetryIssued /\ call.args[3] = None )
    => call.ret[1] = _fallback_action(call.args[1])

\* C3: for every outcome of the model, act returns without raising, returns a
\* non-empty string, and leaves an assistant entry last in the history.
C3_ActAlwaysAnswers ==
    call.op = "act" =>
        /\ ~call.raised
        /\ call.ret # None
        /\ call.ret[1] # <<>>
        /\ History # <<>>
        /\ History[Len(History)].role = "assistant"

\* C3 witness: the model answered with a thinking line only; act returned "look"
C3_ThinkOnlyAnswered ==
    /\ call.op = "act"
    /\ client
    /\ call.args[2] = Some(<<">", " ", "think:", " ", "plan">>)
    /\ call.ret = Some(LOOK)

\* C4: after act on a constructed agent that was never reset, no later call
\* raises.  (Stated as claimed; observe of an open or close action raises
\* KeyError because the self-healed state has no container sets.)
C4_SelfHealedNeverRaises ==
    origin = "act" => ~call.raised

\* C5: in every reachable state a non-empty history starts with a system
\* entry.  (Stated as claimed; observe(done=True) before any reset or act
\* starts the history with the "Episode finished." user entry.)
C5_FirstEntrySystem ==
    History # <<>> => History[1].role = "system"

ResetKeys == {"step", "history", "trajectory", "last_observation", "last_action",
              "opened_containers", "closed_containers", "action_sequence"}

\* the observation text a caller expects back from reset(env_info)
GivenObservation(env_info) ==
    IF env_info.kind = "str" THEN env_info.text
    ELSE IF "obs" \in DOMAIN env_info.d THEN env_info.d["obs"] ELSE <<>>

\* C6: reset returns the observation it was given and replaces the episode
\* state: step 0, history = [system prompt, user "Observation: o"], empty
\* trajectory, action sequence and container sets, no last action, and no
\* key (done, last_reward) left from the episode before.
C6_ResetReplacesEpisode ==
    call.op = "reset" =>
        /\ call.ret = Some(GivenObservation(call.args[1]))
        /\ DOMAIN state = ResetKeys
        /\ state["step"] = 0
        /\ Len(state["history"]) = 2
        /\ state["history"][1].role = "system"
        /\ state["history"][2].role = "user"
        /\ ContainsText(state["history"][2].content,
                        <<"Observation:", " ">> \o GivenObservation(call.args[1]))
        /\ state["trajectory"] = <<>>
        /\ state["action_sequence"] = <<>>
        /\ state["opened_containers"] = {}
        /\ state["closed_containers"] = {}
        /\ state["last_action"] = None
        /\ state["last_observation"] = GivenObservation(call.args[1])

\* C6 witness: a reset that follows a finished episode (its lesson is stored)
C6_ResetAfterDoneEpisode ==
    /\ call.op = "reset"
    /\ reflections # <<>>
    /\ "done" \notin DOMAIN state

\* C7: after any observe(done=True) with max_reflections >= 1 the first stored
\* reflection is the non-empty lesson of that call.  (Stated as claimed; the
\* observe that raises KeyError, see C4, stores no lesson.)
C7_DoneObserveStoresLesson ==
    (call.op = "observe" /\ call.args[3] /\ max_reflections >= 1) =>
        /\ reflections # <<>>
        /\ reflections[1] # <<>>
        /\ reflections[1] = _summarize_trajectory(state)

\* C8: the reflection store never holds more than max_reflections entries.
C8_StoreBounded ==
    Len(reflections) <= max_reflections

\* C8 witness: more episodes finished than the store can hold, and it is full
C8_StoreFullAfterEviction ==
    /\ max_reflections >= 1
    /\ Len(lessons) > max_reflections
    /\ Len(reflections) = max_reflections

Min(a, b) == IF a < b THEN a ELSE b

\* C9: the store is the lessons produced so far, newest first, cut to the
\* first min(k, max_reflections): insertion at index 0, eviction of the oldest.
C9_MostRecentFirst ==
    reflections = [i \in 1..Min(Len(lessons), max_reflections) |->
                       lessons[Len(lessons) + 1 - i]]

\* C9 witness: three different-looking episodes with room for two lessons: the
\* oldest lesson was evicted and differs from the two kept
C9_OldestEvicted ==
    /\ max_reflections = 2
    /\ Len(lessons) = 3
    /\ lessons[1] # lessons[2]
    /\ lessons[2] # lessons[3]
    /\ lessons[1] # lessons[3]
    /\ Len(reflections) = 2

\* C10: every observe call adds one to step and appends exactly one record
\* holding its action, reward and done flag and the last observation, and
\* leaves the earlier records as they were.  (Stated as claimed; the observe
\* that raises KeyError, see C4, has counted the step but appends no record.)
C10_ObserveAppendsOneRecord ==
    [][ call'.op = "observe" =>
          LET old == Get(state, "trajectory", <<>>)
              new == Get(state', "trajectory", <<>>)
          IN /\ Get(state', "step", 0) = Get(state, "step", 0) + 1
             /\ Len(new) = Len(old) + 1
             /\ SubSeq(new, 1, Len(old)) = old
             /\ new[Len(new)].action = call'.args[1]
             /\ new[Len(new)].reward = call'.args[2]
             /\ new[Len(new)].done = call'.args[3]
             /\ new[Len(new)].observation = Get(state, "last_observation", <<>>)
             /\ state'["done"] = call'.args[3]
      ]_vars

\* C11: observe(done=True) appends exactly two entries to the history: a user
\* entry that starts with "Episode finished." and reports the reward and the
\* cleanup score, then the system entry "Lesson learned: r", r being the lesson
\* this call produced and put first in the store; observe(done=False) leaves
\* the history as it was.  (Stated as claimed; the observe that raises
\* KeyError, see C4, appends nothing.)
C11_DoneObserveAppendsTwoEntries ==
    [][ call'.op = "observe" =>
          LET old == Get(state, "history", <<>>)
              new == Get(state', "history", <<>>)
              n == Len(old)
          IN IF call'.args[3]
             THEN /\ Len(new) = n + 2
                  /\ SubSeq(new, 1, n) = old
                  /\ new[n + 1].role = "user"
                  /\ StartsWith(new[n + 1].content, <<"Episode finished.">>)
                  /\ ContainsText(new[n + 1].content,
                                  <<"Reward:", " ">> \o RewardText(call'.args[2]))
                  /\ ContainsText(new[n + 1].content, <<"Cleanup score:", " ">>)
                  /\ Len(lessons') = Len(lessons) + 1
                  /\ new[n + 2] = Entry("system", <<"Lesson learned:", " ">>
                                                      \o lessons'[Len(lessons')])
                  /\ max_reflections >= 1 =>
                         /\ reflections' # <<>>
                         /\ reflections'[1] = lessons'[Len(lessons')]
             ELSE new = old
      ]_vars

\* the container an observed open or close action names
ContainerOf(action) == SubSeq(action, 3, Len(action))

\* containers the recorded transitions of the episode opened, and closed
OpenedInEpisode ==
    { ContainerOf(Trajectory[i].action) :
          i \in {j \in 1..Len(Trajectory) : Trajectory[j].action[1] = "open"} }
ClosedInEpisode ==
    { ContainerOf(Trajectory[i].action) :
          i \in {j \in 1..Len(Trajectory) : Trajectory[j].action[1] = "close"} }

\* the cleanup score of the current state is 1.0 with nothing opened and
\* |opened /\ closed| / |opened| otherwise, and get_episode_stats reports it
ScoreIsRatio ==
    LET score == _calculate_cleanup_score(state)
    IN /\ score.den > 0
       /\ 0 <= score.num
       /\ score.num <= score.den
       /\ OpenedInEpisode = {} => score.num = score.den
       /\ OpenedInEpisode # {} =>
              score.num * Cardinality(OpenedInEpisode)
                  = Cardinality(OpenedInEpisode \cap ClosedInEpisode) * score.den
       /\ call.op = "get_episode_stats" => call.ret[1].cleanup_score = score

\* C12: in every reachable state the cleanup score lies in [0,1], is 1.0 when
\* no container was opened and |opened /\ closed| / |opened| otherwise, and an
\* observed close of a container that was never opened leaves it unchanged.
C12_CleanupScoreIsRatio ==
    [][ /\ ScoreIsRatio'
        /\ ( /\ call'.op = "observe"
             /\ ~call'.raised
             /\ call'.args[1][1] = "close"
             /\ ContainerOf(call'.args[1]) \notin OpenedInEpisode ) =>
               _calculate_cleanup_score(state').num
                       * _calculate_cleanup_score(state).den
                 = _calculate_cleanup_score(state).num
                       * _calculate_cleanup_score(state').den
      ]_vars

\* C12 witness: two containers opened, one of them closed, and the statistics
\* report one half
C12_HalfReported ==
    /\ call.op = "get_episode_stats"
    /\ OpenedInEpisode = { <<"fridge">>, <<"drawer">> }
    /\ ClosedInEpisode = { <<"fridge">> }
    /\ call.ret[1].cleanup_score = [num |-> 1, den |-> 2]

\* the observation mentions the keyword, in any letter case
Mentions(observation, kw) == Contains(Lower(observation), kw)

\* the action the fixed priority assigns to an observation
KeywordChoice(observation) ==
    CASE Mentions(observation, "lamp") /\ Mentions(observation, "off") ->
             <<"turn", " ", "on", " ", "lamp">>
      [] ~(Mentions(observation, "lamp") /\ Mentions(observation, "off"))
         /\ Mentions(observation, "fridge") /\ Mentions(observation, "apple") ->
             <<"put", " ", "apple", " ", "in", " ", "fridge">>
      [] ~(Mentions(observation, "lamp") /\ Mentions(observation, "off"))
         /\ ~(Mentions(observation, "fridge") /\ Mentions(observation, "apple"))
         /\ Mentions(observation, "inventory") ->
             <<"inventory">>
      [] OTHER -> <<"look">>

\* C13: without a model, the action act returns is a function of the
\* observation alone (so two agents in different states answer alike): the
\* first that applies of lamp+off -> "turn on lamp", fridge+apple -> "put apple
\* in fridge", inventory -> "inventory", and "look" otherwise.
C13_OfflineActByKeywords ==
    (call.op = "act" /\ ~client) =>
        /\ ~call.raised
        /\ call.ret = Some(KeywordChoice(call.args[1]))
        /\ llm_calls = <<>>

\* C13 witness: an agent with a stored lesson and two earlier actions is given
\* an observation that mentions every keyword, and turns on the lamp
C13_LampBeforeFridgeAndInventory ==
    /\ call.op = "act"
    /\ ~client
    /\ Mentions(call.args[1], "lamp") /\ Mentions(call.args[1], "off")
    /\ Mentions(call.args[1], "fridge") /\ Mentions(call.args[1], "apple")
    /\ Mentions(call.args[1], "inventory")
    /\ reflections # <<>>
    /\ Len(Get(state, "action_sequence", <<>>)) >= 2
    /\ call.ret = Some(<<"turn", " ", "on", " ", "lamp">>)

\* an action with its letter case and surrounding whitespace normalised
Normalised(action) == Strip(Lower(action))

\* C14: one act call consults the model at most twice, one call after the
\* other: the retry is made exactly when the first call answered and its
\* parsed action is, after normalisation, the stored last_action; with no
\* last_action, no model or a failed first call there is no retry; and act
\* always returns.
C14_RetryIffRepetition ==
    [][ call'.op = "act" =>
          LET r1 == call'.args[2]
              last == Get(state, "last_action", None)
          IN /\ ~call'.raised
             /\ call'.ret # None
             /\ Len(llm_calls') <= 2
             /\ Len(llm_calls') >= 1 <=> client
             /\ Len(llm_calls') = 2 <=>
                    /\ client
                    /\ r1 # None
                    /\ last # None
                    /\ Normalised(_extract_action(Strip(r1[1]))) = Normalised(last[1])
             \* the retry transcript is the first one plus one user entry
             \* that quotes the action parsed from the first answer
             /\ Len(llm_calls') = 2 =>
                    /\ Len(llm_calls'[2]) = Len(llm_calls'[1]) + 1
                    /\ SubSeq(llm_calls'[2], 1, Len(llm_calls'[1])) = llm_calls'[1]
                    /\ llm_calls'[2][Len(llm_calls'[2])].role = "user"
                    /\ ContainsText(llm_calls'[2][Len(llm_calls'[2])].content,
                                    _extract_action(Strip(r1[1])))
      ]_vars

\* C14 witness: last_action is "look", the model answers "Action: LOOK", and
\* the retry is made
C14_RetryOnOtherCase ==
    /\ call.op = "act"
    /\ call.args[2] = Some(<<"Action:", " ", "LOOK">>)
    /\ Len(llm_calls) = 2
    /\ Len(Get(state, "action_sequence", <<>>)) >= 2
    /\ state["action_sequence"][Len(state["action_sequence"]) - 1] = <<"look">>

\* the last act made the retry call and the retry answered
RetrySucceeded == call.op = "act" /\ Len(llm_calls) = 2 /\ call.args[3] # None

\* the action parsed from the answer r of a model call
ParsedFrom(r) == _extract_action(Strip(r[1]))

\* the answer among r1, r2 whose parsed action act returns after a retry
ProducingAnswer(r1, r2) ==
    IF ParsedFrom(r2) # ParsedFrom(r1) THEN r2[1] ELSE r1[1]

\* C15 as stated: after a retry that answered, act returns the retry's parsed
\* action if and only if it differs from the first parsed action and the first
\* otherwise, the assistant entry appended is the raw response of the call
\* that produced the returned action, and last_action is the returned action.
C15_RetryAdoptedRawResponse ==
    RetrySucceeded =>
        /\ call.ret = Some(IF ParsedFrom(call.args[3]) # ParsedFrom(call.args[2])
                           THEN ParsedFrom(call.args[3])
                           ELSE ParsedFrom(call.args[2]))
        /\ History[Len(History)]
               = Entry("assistant", ProducingAnswer(call.args[2], call.args[3]))
        /\ state["last_action"] = call.ret

\* C15 amended: as above, the assistant entry being the response of the
\* producing call with its surrounding whitespace stripped, or the returned
\* action itself when nothing is left of the response.
C15_RetryAdoptedStrippedResponse ==
    RetrySucceeded =>
        /\ call.ret = Some(IF ParsedFrom(call.args[3]) # ParsedFrom(call.args[2])
                           THEN ParsedFrom(call.args[3])
                           ELSE ParsedFrom(call.args[2]))
        /\ History[Len(History)]
               = Entry("assistant",
                       IF Strip(ProducingAnswer(call.args[2], call.args[3])) # <<>>
                       THEN Strip(ProducingAnswer(call.args[2], call.args[3]))
                       ELSE call.ret[1])
        /\ state["last_action"] = call.ret

\* C15 witness: the first answer repeats "look", the retry answers a thinking
\* line and "open fridge", and act returns "open fridge"
C15_RetryAdopted ==
    /\ RetrySucceeded
    /\ ParsedFrom(call.args[2]) = <<"look">>
    /\ call.args[3] = Some(<<">", " ", "think:", " ", "plan", "\n", "open", " ", "fridge">>)
    /\ call.ret = Some(<<"open", " ", "fridge">>)

\* an end-of-episode entry: the "Episode finished." user entry or the
\* "Lesson learned:" system entry that observe(done=True) appends
EndOfEpisodeEntry(entry) ==
    \/ entry.role = "user" /\ StartsWith(entry.content, <<"Episode finished.">>)
    \/ entry.role = "system" /\ StartsWith(entry.content, <<"Lesson learned:">>)

\* C16: no transcript passed to the model contains an end-of-episode entry,
\* whatever calls follow the observe(done=True) that appended them.  (Stated
\* as claimed; act called before the next reset sends the whole history.)
C16_EndEntriesNeverSent ==
    \A i \in 1..Len(llm_calls) : \A j \in 1..Len(llm_calls[i]) :
        ~EndOfEpisodeEntry(llm_calls[i][j])

\* C17: the transcript of act(o) made with a model ends with a user entry
\* that contains "Observation: o".  (Stated as claimed; after reset(x) the
\* trailing user entry still holds x, and after a done observe the transcript
\* ends with the lesson entry.)
C17_ModelSeesGivenObservation ==
    (call.op = "act" /\ client) =>
        /\ llm_calls # <<>>
        /\ llm_calls[1] # <<>>
        /\ llm_calls[1][Len(llm_calls[1])].role = "user"
        /\ ContainsText(llm_calls[1][Len(llm_calls[1])].content,
                        ObservationText(call.args[1]))

\* the text holds the repetition warning
HasWarning(content) ==
    \E k \in 1..Len(content) : content[k] = "[Note: Avoid repeating '"

\* C18: act leaves every entry already stored in the history as it was, no
\* stored entry ever holds the repetition warning, and the warning occurs in
\* a transcript only when last_action was set, and then only in the user
\* entry that ends the first transcript.
C18_WarningTranscriptLocal ==
    [][ call'.op = "act" =>
          LET old == Get(state, "history", <<>>)
              new == Get(state', "history", <<>>)
          IN /\ Len(new) >= Len(old)
             /\ SubSeq(new, 1, Len(old)) = old
             /\ \A j \in 1..Len(new) : ~HasWarning(new[j].content)
             /\ \A i \in 1..Len(llm_calls') : \A j \in 1..Len(llm_calls'[i]) :
                    HasWarning(llm_calls'[i][j].content) =>
                        /\ Get(state, "last_action", None) # None
                        /\ j = Len(llm_calls'[1])
                        /\ llm_calls'[i][j].role = "user"
      ]_vars

\* C18 witness: the transcript of the last act ended with a warned user entry
\* and the stored history holds that entry without the warning
C18_WarningSentNotStored ==
    /\ call.op = "act"
    /\ llm_calls # <<>>
    /\ HasWarning(llm_calls[1][Len(llm_calls[1])].content)
    /\ Len(History) > Len(llm_calls[1])
    /\ History[Len(llm_calls[1])].role = "user"
    /\ ~HasWarning(History[Len(llm_calls[1])].content)

\* the state was made by a reset and no observe since had done=True
RunningEpisode ==
    /\ origin = "reset"
    /\ \A i \in 1..Len(Trajectory) : ~Trajectory[i].done

\* one system entry, then user and assistant entries in turn, a user first
Alternates(history) ==
    /\ history # <<>>
    /\ history[1].role = "system"
    /\ \A i \in 2..Len(history) :
           history[i].role = IF i % 2 = 0 THEN "user" ELSE "assistant"

\* the roles of the entries a call appended to the history
AppendedRoles(old, new) ==
    [i \in 1..(Len(new) - Len(old)) |-> new[Len(old) + i].role]

\* C19: after a reset and any act calls and observe(done=False) calls, the
\* history is the system entry followed by user and assistant entries in
\* strict alternation starting with a user entry, and each act appends one
\* assistant entry and at most one user entry before it.
C19_HistoryAlternates ==
    [][ RunningEpisode' =>
          /\ Alternates(History')
          /\ call'.op = "act" =>
                 /\ Len(History') > Len(History)
                 /\ SubSeq(History', 1, Len(History)) = History
                 /\ AppendedRoles(History, History')
                        \in { <<"assistant">>, <<"user", "assistant">> }
      ]_vars

\* C19 witness: reset, act, act: the second act appended a user entry and an
\* assistant entry
C19_TwoActsAfterReset ==
    /\ RunningEpisode
    /\ call.op = "act"
    /\ Len(History) = 5
    /\ History[4].role = "user"
    /\ History[5].role = "assistant"

\* containers with an observed open that no later observed close follows
LeftOpen ==
    { ContainerOf(Trajectory[i].action) :
          i \in { j \in 1..Len(Trajectory) :
                      /\ Trajectory[j].action[1] = "open"
                      /\ \A k \in (j + 1)..Len(Trajectory) :
                             ~ /\ Trajectory[k].action[1] = "close"
                               /\ ContainerOf(Trajectory[k].action)
                                      = ContainerOf(Trajectory[j].action) } }

\* C20: in an episode with cleanup tracking on, while some container has been
\* opened and not closed since, the cleanup score is strictly below 1.0,
\* whatever the order of the opens and closes observed.  (Stated as claimed;
\* the tracker keeps two sets without order, so a close observed before the
\* open counts for it.)
C20_OpenContainerDepressesScore ==
    (track_cleanup /\ origin = "reset" /\ LeftOpen # {}) =>
        _calculate_cleanup_score(state).num < _calculate_cleanup_score(state).den

\* C21: when an episode observed "open X" and later "close X" (X in any
\* letter case, X possibly containing the words "open " or "close "), both the
\* opened and the closed set hold the same name for X, the lower-case text
\* that follows the verb.  (Stated as claimed; every occurrence of the verb
\* is removed, so "open open box" records "box" and "close open box" records
\* "open box".)
C21_SameNameForBothVerbs ==
    (track_cleanup /\ origin = "reset") =>
        \A i \in 1..Len(Trajectory) : \A j \in (i + 1)..Len(Trajectory) :
            ( /\ Trajectory[i].action[1] = "open"
              /\ Trajectory[j].action[1] = "close"
              /\ Lower(ContainerOf(Trajectory[i].action))
                     = Lower(ContainerOf(Trajectory[j].action)) )
            => /\ Lower(ContainerOf(Trajectory[i].action))
                      \in state["opened_containers"]
               /\ Lower(ContainerOf(Trajectory[i].action))
                      \in state["closed_containers"]
               /\ _calculate_cleanup_score(state).num >= 1

\* the actions of the recorded transitions, in order
RecordedActions == [i \in 1..Len(Trajectory) |-> Trajectory[i].action]

\* actions that occur at least three times in the trajectory
ThriceDone ==
    { a \in {RecordedActions[i] : i \in 1..Len(Trajectory)} :
          Cardinality({i \in 1..Len(Trajectory) : RecordedActions[i] = a}) >= 3 }

\* four consecutive recorded actions of the form A, B, A, B
BackAndForth ==
    \E i \in 1..(Len(Trajectory) - 3) :
        /\ RecordedActions[i] = RecordedActions[i + 2]
        /\ RecordedActions[i + 1] = RecordedActions[i + 3]

FailureLessons == {CleanStateLesson, TemperatureLesson, AlternativeLesson}

\* the clause sequences the cascade may produce for the current state, the
\* repeated action named and the failure lesson chosen being left open
CascadeClauses ==
    LET score == _calculate_cleanup_score(state)
        last == Trajectory[Len(Trajectory)]
        first == IF score.num < score.den THEN {<<CleanupLesson>>} ELSE {<<>>}
        second == IF ThriceDone # {}
                  THEN { <<RepeatLesson(a)>> : a \in ThriceDone } ELSE {<<>>}
        third == IF BackAndForth THEN {<<LoopLesson>>} ELSE {<<>>}
        fourth == IF last.reward > 0 THEN {<<SuccessLesson(last.action)>>}
                  ELSE IF last.done THEN { <<f>> : f \in FailureLessons }
                  ELSE {<<>>}
    IN { c1 \o c2 \o c3 \o c4 :
             c1 \in first, c2 \in second, c3 \in third, c4 \in fourth }

\* the first two clauses (or the only one) joined by one space
CappedAndJoined(clauses) ==
    IF Len(clauses) >= 2 THEN clauses[1] \o <<" ">> \o clauses[2]
    ELSE IF Len(clauses) = 1 THEN clauses[1]
    ELSE ContinueLesson

\* C22: the reflection is the first two clauses (or the only one) of the
\* cascade cleanup, repetition, loop, then success or else failure, joined by
\* one space; an empty trajectory gives "No trajectory recorded."; and the
\* lesson a done observe hands to the store is that reflection.
C22_ReflectionIsCappedCascade ==
    /\ IF Trajectory = <<>>
       THEN _summarize_trajectory(state) = NoTrajectory
       ELSE _summarize_trajectory(state)
                \in { CappedAndJoined(c) : c \in CascadeClauses }
    /\ (call.op = "observe" /\ ~call.raised /\ call.args[3]) =>
           lessons[Len(lessons)] = _summarize_trajectory(state)

\* C22 witness: three clauses fired (cleanup, repetition, failure) and the
\* stored lesson is the first two
C22_ThirdClauseDropped ==
    /\ call.op = "observe"
    /\ ~call.raised
    /\ call.args[3]
    /\ call.args[2] = 0
    /\ ~BackAndForth
    /\ lessons[Len(lessons)]
           = CleanupLesson \o <<" ">> \o RepeatLesson(<<"open", " ", "fridge">>)

\* position in the trajectory of the third occurrence of an action
ThirdOccurrence(a) ==
    CHOOSE i \in 1..Len(Trajectory) :
        /\ RecordedActions[i] = a
        /\ Cardinality({j \in 1..i : RecordedActions[j] = a}) = 3

\* the action that reaches three occurrences first
FirstToThreshold ==
    CHOOSE a \in ThriceDone :
        \A b \in ThriceDone : ThirdOccurrence(a) <= ThirdOccurrence(b)

\* C23: when several actions occur at least three times, the repetition
\* lesson names the one whose third occurrence comes first in the trajectory.
\* (Stated as claimed; the code names the one that appeared first.)
C23_NamesFirstToThreshold ==
    Cardinality(ThriceDone) >= 2 =>
        ContainsText(_summarize_trajectory(state), RepeatLesson(FirstToThreshold))

\* the lesson holds the success clause or one of the failure clauses
HasOutcomeClause(lesson) ==
    \/ \E k \in 1..Len(lesson) : lesson[k] = "Success: completed with '"
    \/ \E f \in FailureLessons : ContainsText(lesson, f)

\* the lesson consists of two clauses of higher priority: two of cleanup,
\* repetition, loop, in that order
TwoHigherClauses(lesson) ==
    \/ /\ StartsWith(lesson, CleanupLesson \o <<" ">>)
       /\ \/ lesson[3] = "Avoid repeating actions like '"
          \/ SubSeq(lesson, 3, Len(lesson)) = LoopLesson
    \/ /\ lesson[1] = "Avoid repeating actions like '"
       /\ SubSeq(lesson, Len(lesson) - 1, Len(lesson)) = <<" ">> \o LoopLesson

\* C25: every reflection observe has stored holds the success clause or a
\* failure clause unless two clauses of higher priority displaced it, and none
\* is the generic "Continue systematic exploration." lesson.
C25_StoredLessonsHaveOutcome ==
    \A i \in 1..Len(lessons) :
        /\ HasOutcomeClause(lessons[i]) \/ TwoHigherClauses(lessons[i])
        /\ ~ContainsText(lessons[i], ContinueLesson)
        /\ lessons[i] # NoTrajectory

\* C25 witness: a lesson whose failure clause was displaced by the repetition
\* and the loop clause, and the store holds it
C25_OutcomeDisplaced ==
    /\ lessons # <<>>
    /\ lessons[Len(lessons)]
           = RepeatLesson(<<"look">>) \o <<" ">> \o LoopLesson
    /\ reflections = <<lessons[Len(lessons)]>>

\* self.state["action_sequence"], empty when absent
ActionSequence == Get(state, "action_sequence", <<>>)

\* C24: _detect_cycle with window 4 answers true exactly when at least three
\* earlier actions exist and the last three of them followed by the candidate
\* read A, B, A, B; with fewer than three earlier actions it answers false;
\* and it leaves action_sequence (and the rest of the state) as it was.
C24_CycleIffABAB ==
    [][ call'.op = "_detect_cycle" =>
          LET n == Len(ActionSequence)
              candidate == call'.args[1]
          IN /\ state' = state
             /\ call'.ret = Some( /\ n >= 3
                                  /\ candidate = ActionSequence[n - 1]
                                  /\ ActionSequence[n] = ActionSequence[n - 2] )
             /\ n < 3 => call'.ret = Some(FALSE)
      ]_vars

\* C24 witness: after look, turn on lamp, look the candidate turn on lamp is
\* reported as a cycle
C24_AlternationDetected ==
    /\ call.op = "_detect_cycle"
    /\ ActionSequence = << <<"look">>, <<"turn", " ", "on", " ", "lamp">>, <<"look">> >>
    /\ call.args[1] = <<"turn", " ", "on", " ", "lamp">>
    /\ call.ret = Some(TRUE)

\* the step from state to state' keeps key k of the dict: present with
\* the same value, or absent, on both sides
Keeps(k) ==
    /\ (k \in DOMAIN state') <=> (k \in DOMAIN state)
    /\ k \in DOMAIN state => state'[k] = state[k]

\* C27: act on a state made by reset leaves step, trajectory, the container
\* sets, last_reward, done and the reflection store as they were;
\* observe(done=False) leaves history, last_action, action_sequence,
\* last_observation and the reflection store as they were; get_episode_stats
\* changes nothing.
C27_DisjointFrames ==
    [][ /\ (call'.op = "act" /\ origin = "reset") =>
               /\ \A k \in {"step", "trajectory", "opened_containers",
                             "closed_containers", "last_reward", "done"} : Keeps(k)
               /\ reflections' = reflections
        /\ (call'.op = "observe" /\ ~call'.args[3]) =>
               /\ \A k \in {"history", "last_action", "action_sequence",
                             "last_observation"} : Keeps(k)
               /\ reflections' = reflections
        /\ call'.op = "get_episode_stats" =>
               /\ state' = state
               /\ reflections' = reflections
      ]_vars

\* C27 witness: act in an episode that has a step counted, a record, a
\* reward and a done flag to keep
C27_ActWithinCountedEpisode ==
    /\ call.op = "act"
    /\ origin = "reset"
    /\ Get(state, "step", 0) >= 1
    /\ Len(Trajectory) >= 1
    /\ "done" \in DOMAIN state
    /\ "last_reward" \in DOMAIN state

\* C26: for the agent bound to a context, the executor resets only when the
\* agent's dict is empty or its done flag is set and calls act once in every
\* request; as it never calls observe, reset has happened exactly once (in
\* the first request), step is 0, no done flag is set and the reflection store
\* is empty; cancel removes the agent, and the next request starts from a
\* fresh instance.
C26_ServerResetsOnce ==
    [][ /\ executor'.bound =>
               /\ executor'.resets = 1
               /\ executor'.acts >= 1
               /\ state'["step"] = 0
               /\ "done" \notin DOMAIN state'
               /\ Get(state', "trajectory", <<>>) = <<>>
        /\ reflections' = <<>>
        /\ call'.op = "execute" =>
               /\ executor'.acts = executor.acts + 1
               /\ executor'.resets > executor.resets =>
                      (state = EmptyDict \/ Get(state, "done", FALSE))
               /\ ~executor.bound =>
                      \* a fresh instance: system prompt, the request, the answer
                      /\ executor'.resets = 1
                      /\ Len(state'["history"]) = 3
                      /\ state'["action_sequence"] = <<call'.ret[1]>>
        /\ call'.op = "cancel" =>
               /\ ~executor'.bound
               /\ state' = EmptyDict
      ]_vars

\* C26 witness: an agent was cancelled, and the agent created by the next
\* request has served two requests with one reset
C26_SecondAgentTwoRequests ==
    /\ call.op = "execute"
    /\ executor.removed >= 1
    /\ executor.bound
    /\ executor.acts = 2
    /\ executor.resets = 1

====
